---- MODULE Spec2Model ----
(***************************************************************************)
(* Model of the LYRA voice front end (src/frontend/app.js): the            *)
(* interaction state, the recognition callbacks, the mic button, the       *)
(* backend request/response lifecycle, the recovery timers and the speech  *)
(* synthesis queue.                                                        *)
(*                                                                         *)
(* Texts that the code inspects character by character (transcripts,       *)
(* voice names and language tags) are sequences of one-character strings;  *)
(* texts that the code only passes on (speaker, mode, the fixed messages,  *)
(* an utterance's text) are plain strings; where such a text may be        *)
(* missing (a field of a response body, the argument of speak) it is a     *)
(* value that is either undefined or a string.                             *)
(***************************************************************************)
EXTENDS Integers, Sequences, FiniteSets, TLC

VARIABLES
    status,             \* state.status
    currentSpeaker,     \* state.currentSpeaker
    mode,               \* state.mode
    recognitionActive,  \* state.recognitionActive
    SpeechRecognition,  \* does the platform offer a recognition constructor
    speechSynthesisRef, \* does the platform offer window.speechSynthesis
    recognition,        \* the module-level `recognition`: "null" or "object"
    engine,             \* the platform recognizer behind `recognition`
    inflight,           \* payloads of the sendToLyra calls awaiting a response
    stage,              \* for each of them, what the call is waiting for
    timers,             \* delays of the pending setTimeout callbacks, oldest first
    voices,             \* speechSynthesis.getVoices()
    synthQueue,         \* utterances speaking or queued in the synthesis engine
    lastSpoken,         \* history: the text of the latest speak call with text
    ui,                 \* the page: the three text fields and the button's classes
    probe,              \* history: the latest direct call of sanitizeSpokenInput
    ev                  \* history: the handler that ran last and its input

vars == <<status, currentSpeaker, mode, recognitionActive, SpeechRecognition,
          speechSynthesisRef, recognition, engine, inflight, stage, timers,
          voices, synthQueue, lastSpoken, ui, probe, ev>>

----------------------------------------------------------------------------
(* Bounds of the model *)

MaxInflight == 2
MaxTimers == 1
MaxVoices == 2
MaxTextLen == 3

(* Program constants *)

SliceCap == 600
RecognitionErrorDelay == 1000
RequestFailureDelay == 1200
UtteranceRate == 1
UtterancePitchHundredths == 102

LANG == "en-IN"

ConnectionIssueMsg == "Sorry, I am facing a connection issue right now. Please try again."
NoReplyMsg == "Sorry, I could not generate a response right now."
NotHeardMsg == "I could not hear you clearly. Please try again."
UnsupportedMsg == "Speech recognition is not supported in this browser. Please use Chrome."

----------------------------------------------------------------------------
(* JavaScript values *)

(* A value the code only passes on or tests with || and !: undefined, or a *)
(* string (any string, "undefined" and "" included).                       *)
Absent == [t |-> "undefined", s |-> ""]

JsText(str) == [t |-> "string", s |-> str]

(* is v truthy: neither undefined nor "" *)
Truthy(v) == v.t = "string" /\ v.s # ""

(* a ?? b in place of a || b: only a missing value falls through *)
OrNullish(a, b) == IF a # Absent THEN a ELSE b

Or(a, b) == IF Truthy(a) THEN a ELSE b

Min(a, b) == IF a < b THEN a ELSE b

(* A value whose characters the code inspects: its type, and in v the      *)
(* characters String(x) gives for it (a string's own characters, a         *)
(* number's digits, an object's toString() result), one-character strings. *)
JsUndefined == [t |-> "undefined", v |-> <<>>]

JsString(s) == [t |-> "string", v |-> s]

JsNull == [t |-> "null", v |-> <<>>]

JsNumber(digits) == [t |-> "number", v |-> digits]

JsBoolean(b) == [t |-> "boolean",
                 v |-> IF b THEN <<"t", "r", "u", "e">>
                       ELSE <<"f", "a", "l", "s", "e">>]

JsObject(shown) == [t |-> "object", v |-> shown]

(* an object without a string form, such as Object.create(null) *)
JsBareObject == [t |-> "bareObject", v |-> <<>>]

(* is x truthy: not undefined, null, "", 0, NaN or false *)
TruthyText(x) ==
    IF x.t = "string" THEN x.v # <<>>
    ELSE IF x.t = "number" THEN x.v \notin {<<"0">>, <<"N", "a", "N">>}
    ELSE IF x.t = "boolean" THEN x.v = <<"t", "r", "u", "e">>
    ELSE x.t \in {"object", "bareObject"}

(* String(x) throws a TypeError *)
ToStrThrows(x) == x.t = "bareObject"

(* String(x) *)
ToStr(x) ==
    IF x.t = "undefined" THEN <<"u", "n", "d", "e", "f", "i", "n", "e", "d">>
    ELSE IF x.t = "null" THEN <<"n", "u", "l", "l">>
    ELSE x.v

----------------------------------------------------------------------------
(* sanitizeSpokenInput *)

(* The grave accent cannot be written inside a TLA+ string: a token stands *)
(* for that one character.                                                 *)
GraveAccent == "GRAVE"

UnsafeChars == {"<", ">", GraveAccent, "$", "\\"}

(* the characters the sanitizer specification builds its short inputs of *)
SanitizeAlphabet == {"a", " ", "\r", "<", GraveAccent}

(* What \s and trim() take as whitespace. A character that cannot be       *)
(* written inside a TLA+ string is held as a token naming its code point.  *)
Whitespace ==
    {" ", "\t", "\n", "\r", "\f", "U+000B", "U+00A0", "U+1680", "U+2000",
     "U+2001", "U+2002", "U+2003", "U+2004", "U+2005", "U+2006", "U+2007",
     "U+2008", "U+2009", "U+200A", "U+2028", "U+2029", "U+202F", "U+205F",
     "U+3000", "U+FEFF"}

(* .replace(/[<>`$\\]/g, " ") *)
ReplaceUnsafe(s) ==
    [i \in 1..Len(s) |-> IF s[i] \in UnsafeChars THEN " " ELSE s[i]]

(* .replace(/\s+/g, ' '): every maximal run of whitespace becomes one space, *)
(* i.e. of each run only its first character stays, as a space             *)
CollapseWhitespace(s) ==
    LET marked == [i \in 1..Len(s) |->
                     [c |-> IF s[i] \in Whitespace THEN " " ELSE s[i],
                      kept |-> \/ s[i] \notin Whitespace
                               \/ i = 1
                               \/ s[i - 1] \notin Whitespace]]
        Kept(e) == e.kept
        left == SelectSeq(marked, Kept)
    IN [i \in 1..Len(left) |-> left[i].c]

TrimStart(s) ==
    IF \A i \in 1..Len(s) : s[i] \in Whitespace THEN <<>>
    ELSE SubSeq(s, CHOOSE i \in 1..Len(s) :
                      s[i] \notin Whitespace /\ \A j \in 1..(i - 1) : s[j] \in Whitespace,
                Len(s))

TrimEnd(s) ==
    IF \A i \in 1..Len(s) : s[i] \in Whitespace THEN <<>>
    ELSE SubSeq(s, 1, CHOOSE i \in 1..Len(s) :
                         s[i] \notin Whitespace /\ \A j \in (i + 1)..Len(s) : s[j] \in Whitespace)

(* .trim() *)
Trim(s) == TrimEnd(TrimStart(s))

(* no .slice at all *)
SliceNone(s, n) == s

(* .slice(0, n) *)
Slice(s, n) == SubSeq(s, 1, Min(Len(s), n))

(* line 66: does sanitizeSpokenInput(text) throw *)
sanitizeThrows(text) == TruthyText(text) /\ ToStrThrows(text)

(* text is a JS value; the result, when the call does not throw, is a      *)
(* string (a sequence of characters)                                       *)
sanitizeSpokenInput(text) ==
    Slice(Trim(CollapseWhitespace(ReplaceUnsafe(
        ToStr(IF TruthyText(text) THEN text ELSE JsString(<<>>))))), SliceCap)

----------------------------------------------------------------------------
(* getPreferredVoice and speak *)

UpperCase == <<"A", "B", "C", "D", "E", "F", "G", "H", "I", "J", "K", "L", "M",
               "N", "O", "P", "Q", "R", "S", "T", "U", "V", "W", "X", "Y", "Z">>

LowerCase == <<"a", "b", "c", "d", "e", "f", "g", "h", "i", "j", "k", "l", "m",
               "n", "o", "p", "q", "r", "s", "t", "u", "v", "w", "x", "y", "z">>

LowerMap == [i \in 1..Len(UpperCase) |-> LowerCase[i]]

UpperIndex == [c \in {UpperCase[i] : i \in 1..Len(UpperCase)} |->
                  CHOOSE i \in 1..Len(UpperCase) : UpperCase[i] = c]

(* c.toLowerCase() for one character *)
Lower(c) == IF c \in DOMAIN UpperIndex THEN LowerMap[UpperIndex[c]] ELSE c

(* does pat occur in s, ignoring case *)
ContainsIgnoreCase(s, pat) ==
    \E i \in 1..(Len(s) - Len(pat) + 1) :
        \A j \in 1..Len(pat) : Lower(s[i + j - 1]) = Lower(pat[j])

(* /en-IN|hi-IN|mr-IN/i *)
LangPatterns == {<<"e", "n", "-", "I", "N">>, <<"h", "i", "-", "I", "N">>,
                 <<"m", "r", "-", "I", "N">>}

(* /female|zira|heera|priya|veena|raveena|sangeeta/i *)
NamePatterns == {<<"f", "e", "m", "a", "l", "e">>, <<"z", "i", "r", "a">>,
                 <<"h", "e", "e", "r", "a">>, <<"p", "r", "i", "y", "a">>,
                 <<"v", "e", "e", "n", "a">>, <<"r", "a", "v", "e", "e", "n", "a">>,
                 <<"s", "a", "n", "g", "e", "e", "t", "a">>}

(* regex.test(x): x is converted to a string first *)
RegexTest(pats, x) == \E pat \in pats : ContainsIgnoreCase(ToStr(x), pat)

LangMatches(voice) == RegexTest(LangPatterns, voice.lang)

NameMatches(voice) == RegexTest(NamePatterns, voice.name)

NoVoice == [name |-> JsUndefined, lang |-> JsUndefined, none |-> TRUE]

Voice(name, lang) == [name |-> name, lang |-> lang, none |-> FALSE]

(* voices.find(pred): the first element that satisfies it, or undefined *)
FindLang(vs) ==
    IF \E i \in 1..Len(vs) : LangMatches(vs[i])
    THEN vs[CHOOSE i \in 1..Len(vs) :
                 LangMatches(vs[i]) /\ \A j \in 1..(i - 1) : ~LangMatches(vs[j])]
    ELSE NoVoice

FindName(vs) ==
    IF \E i \in 1..Len(vs) : NameMatches(vs[i])
    THEN vs[CHOOSE i \in 1..Len(vs) :
                 NameMatches(vs[i]) /\ \A j \in 1..(i - 1) : ~NameMatches(vs[j])]
    ELSE NoVoice

(* getPreferredVoice trying the name patterns before the language tags *)
getPreferredVoiceNameFirst(vs) ==
    LET byLang == FindLang(vs)
        byName == FindName(vs)
    IN IF ~byName.none THEN byName
       ELSE IF ~byLang.none THEN byLang
       ELSE IF vs # <<>> THEN vs[1]
       ELSE NoVoice

(* NoVoice stands for undefined *)
getPreferredVoice(vs) ==
    LET byLang == FindLang(vs)
        byName == FindName(vs)
    IN IF ~byLang.none THEN byLang
       ELSE IF ~byName.none THEN byName
       ELSE IF vs # <<>> THEN vs[1]
       ELSE NoVoice

Utterance(text, vs) ==
    [text |-> text, lang |-> LANG, rate |-> UtteranceRate,
     pitch |-> UtterancePitchHundredths, voice |-> getPreferredVoice(vs)]

(* speak without the cancel() of line 52 *)
speakNoCancel(text, synth, q, vs) ==
    IF ~synth \/ ~Truthy(text) THEN q
    ELSE Append(q, Utterance(text.s, vs))

(* speak(text): the synthesis queue after the call; text is undefined or  *)
(* a string (Absent, JsText). synth is whether                             *)
(* speechSynthesisRef exists, q the queue before, vs the voice list.      *)
speak(text, synth, q, vs) ==
    IF ~synth \/ ~Truthy(text) THEN q
    ELSE <<Utterance(text.s, vs)>>

----------------------------------------------------------------------------
(* updateUI and setStatus *)

Statuses == {"Idle", "Listening", "Thinking", "Error"}

(* the classes that line 29 removes *)
StatusClasses == {"listening", "thinking", "error"}

(* lines 30-32: the class added for a status *)
ClassFor(st) ==
    IF st = "Listening" THEN {"listening"}
    ELSE IF st = "Thinking" THEN {"thinking"}
    ELSE IF st = "Error" THEN {"error"}
    ELSE {}

(* updateUI without the classList.remove of line 29 *)
updateUIKeepClasses(u, st, speaker, md) ==
    [statusText |-> st, speakerText |-> speaker, modeText |-> md,
     classes |-> u.classes \cup ClassFor(st)]

(* updateUI(): the page after the call, from the page u before it and the  *)
(* state fields                                                            *)
updateUI(u, st, speaker, md) ==
    [statusText |-> st, speakerText |-> speaker, modeText |-> md,
     classes |-> (u.classes \ StatusClasses) \cup ClassFor(st)]

(* setStatus(value): the page after state.status = value; updateUI()       *)
setStatus(u, value, speaker, md) == updateUI(u, value, speaker, md)

(* The page as served, before any script has run: of the button's classes  *)
(* only the three status classes are followed.                             *)
ServedPage == [statusText |-> "", speakerText |-> "", modeText |-> "",
               classes |-> {}]

(* no call of sanitizeSpokenInput made yet *)
NoProbe == [input |-> JsUndefined, threw |-> FALSE, output |-> <<>>,
            called |-> FALSE]

----------------------------------------------------------------------------
(* Inputs drawn by the model *)

(* event.results?.[0]?.[0]?.transcript of a result event: missing, empty, *)
(* only whitespace, only replaced characters, and words among both         *)
Transcripts ==
    {JsUndefined,
     JsString(<<>>),
     JsString(<<" ", "\t", " ">>),
     JsString(<<"<", "$">>),
     JsString(<<" ", "a", "<", GraveAccent, "b", " ">>)}

(* The JSON body of a backend response; Absent marks a missing field:      *)
(* every combination of reply, currentSpeaker and mode missing or filled   *)
(* in, the bodies with one of them holding the empty string, and an error  *)
(* field next to everything or to nothing else.                            *)
(* isNull: the body is the JSON value null, not an object. One body holds  *)
(* the string "undefined" as its reply.                                    *)
EmptyBody == [reply |-> Absent, currentSpeaker |-> Absent, mode |-> Absent,
              error |-> Absent, isNull |-> FALSE]

FullBody == [reply |-> JsText("hi"), currentSpeaker |-> JsText("Guest"),
             mode |-> JsText("FOCUS"), error |-> Absent, isNull |-> FALSE]

FilledBodies == [reply : {Absent, JsText("hi")},
                 currentSpeaker : {Absent, JsText("Guest")},
                 mode : {Absent, JsText("FOCUS")},
                 error : {Absent},
                 isNull : {FALSE}]

Bodies ==
    FilledBodies
    \cup {[FullBody EXCEPT ![f] = JsText("")] : f \in {"reply", "currentSpeaker", "mode"}}
    \cup {[FullBody EXCEPT !.reply = JsText("undefined")]}
    \cup {[d EXCEPT !.error = JsText("busy")] : d \in {EmptyBody, FullBody}}

(* the JSON value null as the body: reading a field of it throws *)
NullBody == [EmptyBody EXCEPT !.isNull = TRUE]

(* The bodies that come with a failure status: the code reads only their  *)
(* error field                                                             *)
ErrorBodies == {d \in Bodies : d.reply = Absent /\ d.currentSpeaker = Absent
                                /\ d.mode = Absent}

NoBody == EmptyBody

(* What one request comes back with: fetch rejects; or it resolves with a  *)
(* status (ok is response.ok) and a body that parses as JSON or does not.  *)
Responses ==
    {[fetch |-> "rejected", ok |-> FALSE, json |-> FALSE, data |-> NoBody]}
    \cup {[fetch |-> "resolved", ok |-> o, json |-> FALSE, data |-> NoBody] :
             o \in BOOLEAN}
    \cup {[fetch |-> "resolved", ok |-> FALSE, json |-> TRUE, data |-> d] :
             d \in ErrorBodies}
    \cup {[fetch |-> "resolved", ok |-> o, json |-> TRUE, data |-> NullBody] :
             o \in BOOLEAN}
    \cup {[fetch |-> "resolved", ok |-> TRUE, json |-> TRUE, data |-> d] :
             d \in Bodies}

David == Voice(JsString(<<"D", "a", "v", "i", "d">>), JsString(<<"e", "n", "-", "U", "S">>))

Zira == Voice(JsString(<<"Z", "i", "r", "a">>), JsString(<<"e", "n", "-", "U", "S">>))

----------------------------------------------------------------------------
(* History of calls *)

(* input: the transcript of a result event, else a tag naming the branch   *)
(* taken or the kind of response received                                  *)
Tag(x) == [t |-> x, v |-> <<>>]

Event(name, input) == [name |-> name, input |-> input]

NoSpeech == "<no speak call yet>"

(* lastSpoken after speak(text) *)
Spoken(text, last) == IF Truthy(text) THEN text.s ELSE last

(* How a response is classified when recorded *)
ResponseClass(resp) ==
    IF resp.fetch = "rejected" THEN "rejected"
    ELSE IF ~resp.json THEN "unparsable"
    ELSE IF resp.data.isNull THEN "nullBody"
    ELSE IF ~resp.ok THEN "httpError"
    ELSE IF resp.data.error # Absent THEN "okWithError"
    ELSE "ok"

----------------------------------------------------------------------------
(* Construction *)

(* buildRecognition(): what it returns *)
buildRecognition(sr) == IF sr THEN "object" ELSE "null"

(* buildRecognition without the setStatus of line 111 *)
StatusAfterBuildKeep(sr, st) == st

(* buildRecognition(): the status it leaves *)
StatusAfterBuild(sr, st) == IF sr THEN st ELSE "Error"

(* buildRecognition without the speak of line 112 *)
BuildNoticeNone(sr) == Absent

(* buildRecognition(): the text it speaks, if any *)
BuildNotice(sr) == IF sr THEN Absent ELSE JsText(UnsupportedMsg)

Init ==
    /\ SpeechRecognition \in BOOLEAN
    /\ speechSynthesisRef \in BOOLEAN
    /\ voices = <<>>
    /\ currentSpeaker = "Chaitu"
    /\ mode = "CHILL"
    /\ recognitionActive = FALSE
    /\ recognition = buildRecognition(SpeechRecognition)
    /\ status = StatusAfterBuild(SpeechRecognition, "Idle")
    /\ synthQueue = speak(BuildNotice(SpeechRecognition), speechSynthesisRef, <<>>,
                          voices)
    /\ lastSpoken = Spoken(BuildNotice(SpeechRecognition), NoSpeech)
    /\ engine = "inactive"
    /\ inflight = <<>>
    /\ stage = <<>>
    /\ timers = <<>>
    /\ ui = updateUI(IF SpeechRecognition THEN ServedPage
                     ELSE setStatus(ServedPage, "Error", currentSpeaker, mode),
                     status, currentSpeaker, mode)
    /\ probe = NoProbe
    /\ ev = Event("load", Tag("-"))

----------------------------------------------------------------------------
(* sendToLyra *)

(* a request body that carries the initial speaker and mode *)
PayloadDefaults(userText, speaker, md) ==
    [message |-> sanitizeSpokenInput(JsString(userText)),
     currentSpeaker |-> "Chaitu", mode |-> "CHILL"]

(* The request body built at lines 77-81; userText is a string *)
Payload(userText, speaker, md) ==
    [message |-> sanitizeSpokenInput(JsString(userText)),
     currentSpeaker |-> speaker, mode |-> md]

(* without the check of line 91 *)
ResponseThrowsNoOkCheck(resp) ==
    \/ resp.fetch = "rejected"
    \/ ~resp.json
    \/ resp.data.isNull

(* Does the try block throw for this response: fetch rejects, or           *)
(* response.json() rejects, or the body is null (data.error at line 92 or  *)
(* data.currentSpeaker at line 95 is a TypeError), or response.ok is false *)
ResponseThrows(resp) ==
    \/ resp.fetch = "rejected"
    \/ ~resp.json
    \/ resp.data.isNull
    \/ ~resp.ok

RemoveAt(q, i) == SubSeq(q, 1, i - 1) \o SubSeq(q, i + 1, Len(q))

(* The first half of sendToLyra(userText), up to the await of fetch *)
sendToLyra(userText) ==
    /\ Len(inflight) < MaxInflight
    /\ status' = "Thinking"
    /\ ui' = setStatus(ui, "Thinking", currentSpeaker, mode)
    /\ inflight' = Append(inflight, Payload(userText, currentSpeaker, mode))
    /\ stage' = Append(stage, "fetch")
    /\ UNCHANGED <<currentSpeaker, mode, timers, synthQueue, lastSpoken>>

(* line 99: the text spoken on success *)
ReplyText(data) == Or(data.reply, JsText(NoReplyMsg))

(* lines 95-99 without the setStatus of line 100 *)
ResponseSuccessNoIdle(resp) ==
    /\ currentSpeaker' = Or(resp.data.currentSpeaker, JsText(currentSpeaker)).s
    /\ mode' = Or(resp.data.mode, JsText(mode)).s
    /\ synthQueue' = speak(ReplyText(resp.data), speechSynthesisRef, synthQueue, voices)
    /\ lastSpoken' = Spoken(ReplyText(resp.data), lastSpoken)
    /\ status' = status
    /\ ui' = updateUI(ui, status, currentSpeaker', mode')
    /\ timers' = timers

(* Lines 95-100: the response is applied *)
ResponseSuccess(resp) ==
    /\ currentSpeaker' = Or(resp.data.currentSpeaker, JsText(currentSpeaker)).s
    /\ mode' = Or(resp.data.mode, JsText(mode)).s
    /\ lastSpoken' = Spoken(ReplyText(resp.data), lastSpoken)
    /\ synthQueue' = speak(ReplyText(resp.data), speechSynthesisRef, synthQueue, voices)
    /\ status' = "Idle"
    /\ ui' = setStatus(updateUI(ui, status, currentSpeaker', mode'), "Idle",
                       currentSpeaker', mode')
    /\ timers' = timers

(* Lines 101-106: the catch block *)
ResponseFailure ==
    /\ Len(timers) < MaxTimers
    /\ status' = "Error"
    /\ ui' = setStatus(ui, "Error", currentSpeaker, mode)
    /\ synthQueue' = speak(JsText(ConnectionIssueMsg), speechSynthesisRef, synthQueue, voices)
    /\ lastSpoken' = Spoken(JsText(ConnectionIssueMsg), lastSpoken)
    /\ timers' = Append(timers, RequestFailureDelay)
    /\ UNCHANGED <<currentSpeaker, mode>>

(* sendToLyra wakes twice. When fetch settles (line 83) a rejection goes    *)
(* to the catch block at once; otherwise response.ok is fixed, line 89     *)
(* calls response.json() and the call waits again, and other handlers run  *)
(* in between. When the body settles, lines 91-106 run.                    *)

(* the wake-up in which a call that comes back with resp finishes: a       *)
(* rejected fetch ends it while it waits for fetch, everything else while  *)
(* it waits for the body, with the response.ok fixed earlier               *)
StageOf(resp) ==
    IF resp.fetch = "rejected" THEN "fetch"
    ELSE IF resp.ok THEN "jsonOk"
    ELSE "jsonNotOk"

(* a sendToLyra that drops the response unless it answers the latest       *)
(* request                                                                 *)
responseIfLatest(i, resp) ==
    /\ i \in 1..Len(inflight)
    /\ stage[i] = StageOf(resp)
    /\ inflight' = RemoveAt(inflight, i)
    /\ stage' = RemoveAt(stage, i)
    /\ IF i < Len(inflight)
       THEN UNCHANGED <<status, currentSpeaker, mode, synthQueue, lastSpoken,
                        timers, ui>>
       ELSE IF ResponseThrows(resp) THEN ResponseFailure ELSE ResponseSuccess(resp)
    /\ ev' = Event("response", Tag(ResponseClass(resp)))
    /\ UNCHANGED <<recognitionActive, SpeechRecognition, speechSynthesisRef,
                   recognition, engine, voices, probe>>

(* line 83 resumes with a response for request i; line 89 awaits its body  *)
fetchResolved(i, ok) ==
    /\ i \in 1..Len(inflight)
    /\ stage[i] = "fetch"
    /\ stage' = [stage EXCEPT ![i] = IF ok THEN "jsonOk" ELSE "jsonNotOk"]
    /\ ev' = Event("fetchResolved", Tag("-"))
    /\ UNCHANGED <<status, currentSpeaker, mode, recognitionActive,
                   SpeechRecognition, speechSynthesisRef, recognition, engine,
                   inflight, timers, voices, synthQueue, lastSpoken, ui, probe>>

(* The last wake-up of sendToLyra for request i, which comes back with     *)
(* resp: the catch block after a rejected fetch, or lines 91-106 after the *)
(* body has settled.                                                       *)
response(i, resp) ==
    /\ i \in 1..Len(inflight)
    /\ stage[i] = StageOf(resp)
    /\ IF ResponseThrows(resp) THEN ResponseFailure ELSE ResponseSuccess(resp)
    /\ inflight' = RemoveAt(inflight, i)
    /\ stage' = RemoveAt(stage, i)
    /\ ev' = Event("response", Tag(ResponseClass(resp)))
    /\ UNCHANGED <<recognitionActive, SpeechRecognition, speechSynthesisRef,
                   recognition, engine, voices, probe>>

(* a timer callback that resets the status only if it is still Error *)
StatusAfterTimeoutIfError(st) == IF st = "Error" THEN "Idle" ELSE st

(* a timer callback that leaves the status alone *)
StatusAfterTimeoutKeep(st) == st

(* lines 105 and 140: what a timer callback sets the status to *)
StatusAfterTimeout(st) == "Idle"

(* A pending timer can fire unless one set earlier with a delay no longer  *)
(* than its own is still pending.                                          *)
CanFire(i) == \A j \in 1..(i - 1) : timers[j] > timers[i]

(* the setTimeout callback of timer i fires *)
timeout(i) ==
    /\ i \in 1..Len(timers)
    /\ CanFire(i)
    /\ timers' = RemoveAt(timers, i)
    /\ status' = StatusAfterTimeout(status)
    /\ ui' = setStatus(ui, status', currentSpeaker, mode)
    /\ ev' = Event("timeout", Tag("-"))
    /\ UNCHANGED <<currentSpeaker, mode, recognitionActive, SpeechRecognition,
                   speechSynthesisRef, recognition, engine, inflight, stage, voices,
                   synthQueue, lastSpoken, probe>>

----------------------------------------------------------------------------
(* The recognition callbacks. engine is the platform recognizer:           *)
(* inactive --start()--> starting --onstart--> active --onresult/onerror-->*)
(* ending --onend--> inactive; an error can come before onstart and an end *)
(* without a result.                                                       *)

onstart ==
    /\ engine = "starting"
    /\ engine' = "active"
    /\ recognitionActive' = TRUE
    /\ status' = "Listening"
    /\ ui' = setStatus(ui, "Listening", currentSpeaker, mode)
    /\ ev' = Event("onstart", Tag("-"))
    /\ UNCHANGED <<currentSpeaker, mode, SpeechRecognition, speechSynthesisRef,
                   recognition, inflight, stage, timers, voices, synthQueue, lastSpoken,
                   probe>>

(* line 127: event.results?.[0]?.[0]?.transcript || "" *)
TranscriptOf(t) == IF TruthyText(t) THEN ToStr(t) ELSE <<>>

(* without the check of line 129 *)
IsEmptyTextNever(cleaned) == FALSE

(* line 129: if (!cleaned) *)
IsEmptyText(cleaned) == cleaned = <<>>

onresult(t) ==
    /\ engine = "active"
    /\ engine' = "ending"
    /\ LET cleaned == sanitizeSpokenInput(JsString(TranscriptOf(t)))
       IN IF IsEmptyText(cleaned)
          THEN /\ status' = "Idle"
               /\ ui' = setStatus(ui, "Idle", currentSpeaker, mode)
               /\ UNCHANGED <<currentSpeaker, mode, inflight, stage, timers, synthQueue,
                              lastSpoken>>
          ELSE sendToLyra(cleaned)
    /\ ev' = Event("onresult", t)
    /\ UNCHANGED <<recognitionActive, SpeechRecognition, speechSynthesisRef,
                   recognition, voices, probe>>

onerror ==
    /\ engine \in {"starting", "active"}
    /\ engine' = "ending"
    /\ Len(timers) < MaxTimers
    /\ recognitionActive' = FALSE
    /\ status' = "Error"
    /\ ui' = setStatus(ui, "Error", currentSpeaker, mode)
    /\ synthQueue' = speak(JsText(NotHeardMsg), speechSynthesisRef, synthQueue, voices)
    /\ lastSpoken' = Spoken(JsText(NotHeardMsg), lastSpoken)
    /\ timers' = Append(timers, RecognitionErrorDelay)
    /\ ev' = Event("onerror", Tag("-"))
    /\ UNCHANGED <<currentSpeaker, mode, SpeechRecognition, speechSynthesisRef,
                   recognition, inflight, stage, voices, probe>>

(* an onend that never touches the status *)
StatusAfterEndKeep(st) == st

(* line 145 without its condition *)
StatusAfterEndAlwaysIdle(st) == "Idle"

(* line 145 *)
StatusAfterEnd(st) == IF st = "Listening" THEN "Idle" ELSE st

onend ==
    /\ engine \in {"active", "ending"}
    /\ engine' = "inactive"
    /\ recognitionActive' = FALSE
    /\ status' = StatusAfterEnd(status)
    /\ ui' = IF status = "Listening" THEN setStatus(ui, status', currentSpeaker, mode)
             ELSE ui
    /\ ev' = Event("onend", Tag("-"))
    /\ UNCHANGED <<currentSpeaker, mode, SpeechRecognition, speechSynthesisRef,
                   recognition, inflight, stage, timers, voices, synthQueue, lastSpoken,
                   probe>>

----------------------------------------------------------------------------
(* The mic button *)

(* lines 154-157: no recognition object, build one again *)
clickRebuild ==
    /\ recognition = "null"
    /\ recognition' = buildRecognition(SpeechRecognition)
    /\ status' = StatusAfterBuild(SpeechRecognition, status)
    /\ ui' = IF SpeechRecognition THEN ui
             ELSE setStatus(ui, status', currentSpeaker, mode)
    /\ synthQueue' = speak(BuildNotice(SpeechRecognition), speechSynthesisRef,
                           synthQueue, voices)
    /\ lastSpoken' = Spoken(BuildNotice(SpeechRecognition), lastSpoken)
    /\ ev' = Event("click", Tag("rebuild"))
    /\ UNCHANGED <<recognitionActive, engine>>

(* lines 159-161 without the setStatus of line 161 *)
clickStopKeepsStatus ==
    /\ recognition # "null"
    /\ recognitionActive
    /\ status' = status
    /\ ui' = ui
    /\ ev' = Event("click", Tag("stop"))
    /\ UNCHANGED <<recognition, recognitionActive, engine, synthQueue, lastSpoken>>

(* lines 159-163: recognition.stop() *)
clickStop ==
    /\ recognition # "null"
    /\ recognitionActive
    /\ status' = "Idle"
    /\ ui' = setStatus(ui, "Idle", currentSpeaker, mode)
    /\ ev' = Event("click", Tag("stop"))
    /\ UNCHANGED <<recognition, recognitionActive, engine, synthQueue, lastSpoken>>

(* lines 165-170: recognition.start(), which throws unless the recognizer  *)
(* is inactive                                                             *)
clickStart ==
    /\ recognition # "null"
    /\ ~recognitionActive
    /\ IF engine = "inactive"
       THEN /\ engine' = "starting"
            /\ status' = status
            /\ ui' = ui
            /\ ev' = Event("click", Tag("start"))
       ELSE /\ engine' = engine
            /\ status' = "Idle"
            /\ ui' = setStatus(ui, "Idle", currentSpeaker, mode)
            /\ ev' = Event("click", Tag("startThrew"))
    /\ UNCHANGED <<recognition, recognitionActive, synthQueue, lastSpoken>>

click ==
    /\ clickRebuild \/ clickStop \/ clickStart
    /\ UNCHANGED <<currentSpeaker, mode, SpeechRecognition, speechSynthesisRef,
                   inflight, stage, timers, voices, probe>>

----------------------------------------------------------------------------
(* The synthesis engine *)

(* the utterance being spoken ends *)
utteranceEnd ==
    /\ synthQueue # <<>>
    /\ synthQueue' = Tail(synthQueue)
    /\ ev' = Event("utteranceEnd", Tag("-"))
    /\ UNCHANGED <<status, currentSpeaker, mode, recognitionActive,
                   SpeechRecognition, speechSynthesisRef, recognition, engine,
                   inflight, stage, timers, voices, lastSpoken, ui, probe>>

----------------------------------------------------------------------------
(* The page: every handler. Here the platform's voice list stays empty    *)
(* (getVoices() before any voiceschanged); SpecSpeak below varies it.      *)

Next ==
    \/ click
    \/ onstart
    \/ \E t \in Transcripts : onresult(t)
    \/ onerror
    \/ onend
    \/ \E i \in 1..MaxInflight, ok \in BOOLEAN : fetchResolved(i, ok)
    \/ \E i \in 1..MaxInflight, resp \in Responses : response(i, resp)
    \/ \E i \in 1..MaxTimers : timeout(i)
    \/ utteranceEnd

Spec == Init /\ [][Next]_vars

(* The event loop runs every pending timer, every fetch settles and the    *)
(* recognizer ends each session it has started.                            *)
FairSpec ==
    /\ Spec
    /\ WF_vars(\E i \in 1..MaxTimers : timeout(i))
    /\ WF_vars(onstart)
    /\ WF_vars(onend)
    /\ WF_vars(\E i \in 1..MaxInflight, resp \in Responses : response(i, resp))

----------------------------------------------------------------------------
(* The speech output adapter alone: speak called with any text, while the  *)
(* platform loads voice lists and finishes utterances.                     *)

Ravi == Voice(JsString(<<"R", "a", "v", "i">>), JsString(<<"h", "i", "-", "I", "N">>))

(* a language tag in another case, and a voice without name and language *)
Heera == Voice(JsString(<<"H", "e", "e", "r", "a">>), JsString(<<"E", "N", "-", "i", "n">>))

Unnamed == Voice(JsUndefined, JsUndefined)

SampleVoices == {David, Zira, Ravi, Heera, Unnamed}

RECURSIVE VoiceListsUpTo(_)
VoiceListsUpTo(n) ==
    IF n = 0 THEN {<<>>}
    ELSE VoiceListsUpTo(n - 1) \cup
         {Append(l, v) : l \in {k \in VoiceListsUpTo(n - 1) : Len(k) = n - 1},
                         v \in SampleVoices}

VoiceLists == VoiceListsUpTo(MaxVoices)

SpeakTexts == {Absent, JsText(""), JsText("hi"), JsText("bye"),
               JsText("undefined"), JsText(NotHeardMsg)}

InitSpeak ==
    /\ SpeechRecognition = TRUE
    /\ speechSynthesisRef \in BOOLEAN
    /\ voices \in VoiceLists
    /\ currentSpeaker = "Chaitu"
    /\ mode = "CHILL"
    /\ recognitionActive = FALSE
    /\ recognition = buildRecognition(SpeechRecognition)
    /\ status = "Idle"
    /\ synthQueue = <<>>
    /\ lastSpoken = NoSpeech
    /\ engine = "inactive"
    /\ inflight = <<>>
    /\ stage = <<>>
    /\ timers = <<>>
    /\ ui = updateUI(ServedPage, status, currentSpeaker, mode)
    /\ probe = NoProbe
    /\ ev = Event("load", Tag("-"))

(* speak(text) *)
speakCall(text) ==
    /\ synthQueue' = speak(text, speechSynthesisRef, synthQueue, voices)
    /\ lastSpoken' = Spoken(text, lastSpoken)
    /\ ev' = Event("speak", text)
    /\ UNCHANGED <<status, currentSpeaker, mode, recognitionActive,
                   SpeechRecognition, speechSynthesisRef, recognition, engine,
                   inflight, stage, timers, voices, ui, probe>>

(* the platform's voice list changes; the listener of lines 173-176 calls  *)
(* getPreferredVoice and keeps nothing                                     *)
voiceschanged ==
    /\ speechSynthesisRef
    /\ voices' \in VoiceLists \ {voices}
    /\ ev' = Event("voiceschanged", Tag("-"))
    /\ UNCHANGED <<status, currentSpeaker, mode, recognitionActive,
                   SpeechRecognition, speechSynthesisRef, recognition, engine,
                   inflight, stage, timers, synthQueue, lastSpoken, ui, probe>>

NextSpeak ==
    \/ \E text \in SpeakTexts : speakCall(text)
    \/ voiceschanged
    \/ utteranceEnd

SpecSpeak == InitSpeak /\ [][NextSpeak]_vars

----------------------------------------------------------------------------
(* The sanitizer alone: sanitizeSpokenInput called with any value.         *)

(* every string over the alphabet of length at most n *)
RECURSIVE TextsUpTo(_)
TextsUpTo(n) ==
    IF n = 0 THEN {<<>>}
    ELSE TextsUpTo(n - 1) \cup
         {Append(s, c) : s \in {k \in TextsUpTo(n - 1) : Len(k) = n - 1},
                         c \in SanitizeAlphabet}

Repeat(c, n) == [i \in 1..n |-> c]

(* strings longer than the cap: one word, a word whose cut falls right     *)
(* after a space, whitespace only, unsafe characters only, and a word cut  *)
(* inside a run of whitespace and unsafe characters                        *)
LongTexts ==
    {Repeat("a", SliceCap + 1),
     Repeat("a", SliceCap - 1) \o <<" ", "b">>,
     Repeat(" ", SliceCap + 100),
     Repeat("$", SliceCap + 1),
     <<" ">> \o Repeat("a", SliceCap - 2) \o <<"<", "\t", ">", "b", "\\">>}

NonStrings ==
    {JsUndefined, JsNull, JsNumber(<<"0">>), JsNumber(<<"4", "2">>),
     JsNumber(<<"N", "a", "N">>), JsBoolean(TRUE), JsBoolean(FALSE),
     JsObject(<<"[", "o", "b", "j", "e", "c", "t", " ", "O", "b", "j", "e", "c",
                "t", "]">>),
     JsObject(<<"<", "b", ">", ",", "$">>), JsObject(<<>>), JsBareObject}

(* strings with the other whitespace characters *)
OtherSpaceTexts ==
    {<<"a", "\f", "U+00A0", "b">>, <<"U+FEFF", "a", "U+2028">>,
     <<"\t", "\n", "U+000B", "U+3000">>}

SanitizeInputs ==
    {JsString(s) : s \in TextsUpTo(MaxTextLen) \cup LongTexts \cup OtherSpaceTexts}
    \cup NonStrings

InitSanitize ==
    /\ SpeechRecognition = TRUE
    /\ speechSynthesisRef = TRUE
    /\ voices = <<>>
    /\ currentSpeaker = "Chaitu"
    /\ mode = "CHILL"
    /\ recognitionActive = FALSE
    /\ recognition = buildRecognition(SpeechRecognition)
    /\ status = "Idle"
    /\ synthQueue = <<>>
    /\ lastSpoken = NoSpeech
    /\ engine = "inactive"
    /\ inflight = <<>>
    /\ stage = <<>>
    /\ timers = <<>>
    /\ ui = updateUI(ServedPage, status, currentSpeaker, mode)
    /\ probe = NoProbe
    /\ ev = Event("load", Tag("-"))

(* sanitizeSpokenInput(x) *)
sanitizeCall(x) ==
    /\ probe' = [input |-> x, threw |-> sanitizeThrows(x),
                 output |-> IF sanitizeThrows(x) THEN <<>> ELSE sanitizeSpokenInput(x),
                 called |-> TRUE]
    /\ ev' = Event("sanitize", Tag("-"))
    /\ UNCHANGED <<status, currentSpeaker, mode, recognitionActive,
                   SpeechRecognition, speechSynthesisRef, recognition, engine,
                   inflight, stage, timers, voices, synthQueue, lastSpoken, ui>>

NextSanitize == \E x \in SanitizeInputs : sanitizeCall(x)

SpecSanitize == InitSanitize /\ [][NextSanitize]_vars

----------------------------------------------------------------------------
(* Properties *)

HttpOkJson(resp) ==
    resp.fetch = "resolved" /\ resp.ok /\ resp.json /\ ~resp.data.isNull

(* HTTP 2xx with an error field in the body *)
OkWithErrorResponses == {r \in Responses : HttpOkJson(r) /\ r.data.error # Absent}

(* HTTP 2xx without one *)
OkResponses == {r \in Responses : HttpOkJson(r) /\ r.data.error = Absent}

(* a non-OK status, a rejected fetch or an unparsable body *)
FailedResponses ==
    {r \in Responses : r.fetch = "rejected" \/ ~r.json \/ ~r.ok \/ r.data.isNull}

Filled(v) == v \notin {Absent, JsText("")}

(* the synthesis queue right after speak(text) when synthesis exists *)
JustSpoke(text) ==
    /\ lastSpoken' = text
    /\ speechSynthesisRef => synthQueue' = <<Utterance(text, voices)>>

(* C1: a response with an HTTP 2xx status whose JSON body holds an error   *)
(* field is handled as a failure: status becomes Error, the                *)
(* connection-issue message is spoken, and currentSpeaker and mode are not *)
(* updated from the body. Line 91 tests only response.ok, so the code      *)
(* takes lines 95-100 instead.                                             *)
C1_OkWithErrorIsFailure ==
    [][ev' = Event("response", Tag("okWithError")) =>
       \A i \in 1..MaxInflight, resp \in OkWithErrorResponses :
         response(i, resp)
         => /\ status' = "Error"
            /\ JustSpoke(ConnectionIssueMsg)
            /\ currentSpeaker' = currentSpeaker
            /\ mode' = mode]_vars

(* C2: a response that is a non-OK status, a rejected fetch or an          *)
(* unparsable body sets status to Error, speaks the connection-issue       *)
(* message and schedules exactly one timer; a timer that fires sets status *)
(* to Idle. The handler has no path on which an exception leaves it.       *)
C2_FailurePath ==
    /\ [][(ev'.name = "response" /\ ev'.input \notin {Tag("ok"), Tag("okWithError")}) =>
          \A i \in 1..MaxInflight, resp \in FailedResponses :
            response(i, resp)
            => /\ status' = "Error"
               /\ JustSpoke(ConnectionIssueMsg)
               /\ timers' = Append(timers, RequestFailureDelay)
               /\ currentSpeaker' = currentSpeaker
               /\ mode' = mode]_vars
    /\ [][Len(timers') < Len(timers) => status' = "Idle"]_vars

(* an unparsable body has just been handled: Error, with a timer pending   *)
C2_Witness ==
    /\ ev = Event("response", Tag("unparsable"))
    /\ status = "Error"
    /\ lastSpoken = ConnectionIssueMsg
    /\ timers = <<RequestFailureDelay>>

(* C3, as claimed: after an HTTP-OK response without an error field,       *)
(* currentSpeaker and mode are the response's values when present and the  *)
(* prior values otherwise, the reply is spoken (the apology when reply is  *)
(* absent) and status is Idle.                                             *)
C3_SuccessAppliesPresentFields ==
    [][ev' = Event("response", Tag("ok")) =>
       \A i \in 1..MaxInflight, resp \in OkResponses :
         response(i, resp)
         => /\ currentSpeaker' = IF resp.data.currentSpeaker # Absent
                                 THEN resp.data.currentSpeaker.s ELSE currentSpeaker
            /\ mode' = IF resp.data.mode # Absent THEN resp.data.mode.s ELSE mode
            /\ JustSpoke(IF resp.data.reply # Absent THEN resp.data.reply.s
                         ELSE NoReplyMsg)
            /\ status' = "Idle"]_vars

(* C3, amended: the same with "present" read as present and not empty: an  *)
(* empty currentSpeaker or mode leaves the prior value, an empty reply is  *)
(* replaced by the apology.                                                *)
C3_SuccessAppliesFilledFields ==
    [][ev' = Event("response", Tag("ok")) =>
       \A resp \in OkResponses :
         \/ /\ currentSpeaker' = IF Filled(resp.data.currentSpeaker)
                                 THEN resp.data.currentSpeaker.s ELSE currentSpeaker
            /\ mode' = IF Filled(resp.data.mode) THEN resp.data.mode.s ELSE mode
            /\ JustSpoke(IF Filled(resp.data.reply) THEN resp.data.reply.s
                         ELSE NoReplyMsg)
            /\ status' = "Idle"
            /\ timers' = timers
         \/ ~ResponseSuccess(resp)]_vars

(* a success response has set the speaker, kept the mode and, having no    *)
(* reply, made the apology the utterance                                   *)
C3_Witness ==
    /\ ev = Event("response", Tag("ok"))
    /\ status = "Idle"
    /\ currentSpeaker = "Guest"
    /\ mode = "CHILL"
    /\ lastSpoken = NoReplyMsg

(* C4: onresult with a transcript that is absent or sanitizes to the empty *)
(* string sets status to Idle and issues no request; otherwise it issues   *)
(* one request and sets status to Thinking; and nothing but an onresult    *)
(* with a non-empty sanitized transcript issues a request.                 *)
C4_EmptyTranscriptNoRequest ==
    /\ [][\A t \in Transcripts :
            onresult(t)
            => IF t = JsUndefined \/ sanitizeSpokenInput(t) = <<>>
               THEN status' = "Idle" /\ inflight' = inflight
               ELSE /\ status' = "Thinking"
                    /\ Len(inflight') = Len(inflight) + 1
                    /\ SubSeq(inflight', 1, Len(inflight)) = inflight]_vars
    /\ [][Len(inflight') > Len(inflight)
            => ev'.name = "onresult" /\ sanitizeSpokenInput(ev'.input) # <<>>]_vars

(* a transcript of replaced characters only has just led back to Idle      *)
C4_Witness ==
    /\ ev = Event("onresult", JsString(<<"<", "$">>))
    /\ status = "Idle"
    /\ inflight = <<>>

(* C5: after onend, recognitionActive is false, status is Idle if it was   *)
(* Listening and is otherwise unchanged, and currentSpeaker and mode are   *)
(* unchanged.                                                              *)
C5_OnEndFrame ==
    [][ev'.name = "onend"
         => /\ recognitionActive' = FALSE
            /\ status' = IF status = "Listening" THEN "Idle" ELSE status
            /\ currentSpeaker' = currentSpeaker
            /\ mode' = mode]_vars

(* onend has arrived during Thinking and left the status alone             *)
C5_Witness ==
    /\ ev = Event("onend", Tag("-"))
    /\ status = "Thinking"
    /\ ~recognitionActive

(* C6: onerror sets recognitionActive to false and status to Error, speaks *)
(* the apology and schedules one timer; a timer that fires sets status to  *)
(* Idle, and after an onerror status does become Idle.                     *)
C6_OnErrorRecovers ==
    /\ [][ev'.name = "onerror"
            => /\ recognitionActive' = FALSE
               /\ status' = "Error"
               /\ JustSpoke(NotHeardMsg)
               /\ timers' = Append(timers, RecognitionErrorDelay)]_vars
    /\ [][ev'.name = "timeout" => status' = "Idle"]_vars
    /\ (ev.name = "onerror") ~> (status = "Idle")

(* onerror has just run *)
C6_Witness ==
    /\ ev = Event("onerror", Tag("-"))
    /\ status = "Error"
    /\ ~recognitionActive
    /\ lastSpoken = NotHeardMsg
    /\ timers = <<RecognitionErrorDelay>>

(* C7, as claimed: whenever status becomes Listening, the status before    *)
(* was Idle.                                                               *)
C7_ListeningOnlyFromIdle ==
    [][(status' = "Listening" /\ status # "Listening") => status = "Idle"]_vars

(* C8, as claimed: no status is terminal, the state without recognition    *)
(* included: status is Idle again and again.                               *)
C8_AlwaysEventuallyIdle == []<>(status = "Idle")

(* C8, amended: when the platform offers recognition, from every state     *)
(* status becomes Idle again; when it offers none, status is Error for the *)
(* whole session.                                                          *)
C8_IdleAgainWithRecognition ==
    /\ [](SpeechRecognition => <>(status = "Idle"))
    /\ [](~SpeechRecognition => status = "Error")

(* without recognition, a click has been handled and status is Error       *)
C8_Witness ==
    /\ ~SpeechRecognition
    /\ ev = Event("click", Tag("rebuild"))
    /\ status = "Error"
    /\ timers = <<>>
    /\ inflight = <<>>

(* C9, as claimed: without recognition, a click changes no field of the    *)
(* interaction state and submits no utterance.                             *)
C9_ClickIsNoOp ==
    [][(~SpeechRecognition /\ ev'.name = "click")
         => UNCHANGED <<status, currentSpeaker, mode, recognitionActive,
                        synthQueue>>]_vars

(* C9, amended: without recognition, construction sets status to Error and *)
(* speaks the unsupported notice; a later click changes no field of the    *)
(* interaction state but speaks the unsupported notice again.              *)
C9_ClickRepeatsNotice ==
    /\ [](~SpeechRecognition /\ ev.name = "load"
            => /\ status = "Error"
               /\ lastSpoken = UnsupportedMsg
               /\ speechSynthesisRef
                    => synthQueue = <<Utterance(UnsupportedMsg, voices)>>)
    /\ [][(~SpeechRecognition /\ ev'.name = "click")
            => /\ UNCHANGED <<status, currentSpeaker, mode, recognitionActive>>
               /\ JustSpoke(UnsupportedMsg)]_vars

(* without recognition, a click has put the notice in the queue            *)
C9_Witness ==
    /\ ~SpeechRecognition
    /\ ev = Event("click", Tag("rebuild"))
    /\ synthQueue = <<Utterance(UnsupportedMsg, voices)>>

(* C10: the synthesis engine holds at most one utterance, and its text is  *)
(* that of the latest speak call with text; a speak call with empty or     *)
(* missing text leaves the queue as it is.                                 *)
C10_AtMostOneUtterance ==
    /\ [](Len(synthQueue) <= 1)
    /\ [](synthQueue # <<>> => synthQueue[1].text = lastSpoken)
    /\ [][(ev'.name = "speak" /\ ev'.input \in {JsText(""), Absent})
            => synthQueue' = synthQueue]_vars
    /\ [][(ev'.name = "speak" /\ ev'.input \notin {JsText(""), Absent})
            => (speechSynthesisRef
                  => Len(synthQueue') = 1 /\ JsText(synthQueue'[1].text) = ev'.input)]_vars

(* speak has made its text, with the preferred voice, the one utterance    *)
C10_Witness ==
    /\ ev = Event("speak", JsText("bye"))
    /\ synthQueue = <<Utterance("bye", voices)>>
    /\ voices # <<>>

(* C11: between handlers the status is one of Idle, Listening, Thinking    *)
(* and Error, and the page shows the state: the three texts equal          *)
(* state.status, state.currentSpeaker and state.mode, and of the status    *)
(* classes the button carries exactly the one of the current status, none  *)
(* when Idle.                                                              *)
C11_UiIsProjection ==
    /\ status \in {"Idle", "Listening", "Thinking", "Error"}
    /\ ui.statusText = status
    /\ ui.speakerText = currentSpeaker
    /\ ui.modeText = mode
    /\ ("listening" \in ui.classes) <=> (status = "Listening")
    /\ ("thinking" \in ui.classes) <=> (status = "Thinking")
    /\ ("error" \in ui.classes) <=> (status = "Error")

(* after an Error and a response that changed speaker and mode, a new      *)
(* request shows Thinking with the new speaker and mode                    *)
C11_Witness ==
    /\ status = "Thinking"
    /\ ui = [statusText |-> "Thinking", speakerText |-> "Guest",
             modeText |-> "FOCUS", classes |-> {"thinking"}]
    /\ ev.name = "onresult"

(* C12, as claimed: for every input, strings and other values alike,       *)
(* sanitizeSpokenInput returns (it does not throw) a string of at most 600 *)
(* characters, none of them one of < > grave accent $ backslash, and the   *)
(* empty string for an empty input (the empty string, undefined, null).    *)
C12_SanitizedIsBoundedAndSafe ==
    probe.called =>
        /\ ~probe.threw
        /\ Len(probe.output) <= 600
        /\ \A i \in 1..Len(probe.output) :
              probe.output[i] \notin {"<", ">", GraveAccent, "$", "\\"}
        /\ probe.input \in {JsString(<<>>), JsUndefined, JsNull}
              => probe.output = <<>>

(* C13, as claimed: sanitizing the result of sanitizeSpokenInput again     *)
(* gives the same string, for every input.                                 *)
C13_SanitizeIdempotent ==
    probe.called => sanitizeSpokenInput(JsString(probe.output)) = probe.output

(* C14: the voice that speak gives an utterance, which is what             *)
(* getPreferredVoice returns for the current voice list, is the first      *)
(* voice whose language tag matches en-IN, hi-IN or mr-IN if there is one; *)
(* otherwise the first voice whose name matches the name patterns if there *)
(* is one; otherwise the first voice of the list; and undefined when the   *)
(* list is empty.                                                          *)
C14_PreferredVoice ==
    (ev.name = "speak" /\ ev.input \notin {JsText(""), Absent} /\ speechSynthesisRef)
    => LET chosen == synthQueue[1].voice
           n == Len(voices)
           FirstWith(P(_)) ==
               \E i \in 1..n : /\ chosen = voices[i]
                                /\ P(voices[i])
                                /\ \A j \in 1..(i - 1) : ~P(voices[j])
       IN IF \E i \in 1..n : LangMatches(voices[i]) THEN FirstWith(LangMatches)
          ELSE IF \E i \in 1..n : NameMatches(voices[i]) THEN FirstWith(NameMatches)
          ELSE IF n > 0 THEN chosen = voices[1]
          ELSE chosen = NoVoice

(* with David and Zira, neither with a matching language, speak took Zira  *)
C14_Witness ==
    /\ ev = Event("speak", JsText("hi"))
    /\ voices = <<David, Zira>>
    /\ synthQueue # <<>>
    /\ synthQueue[1].voice = Zira

(* C15: a pending timer is never cancelled, it leaves only by firing, and  *)
(* clicks and recognition results leave the timers as they are; a timer    *)
(* that fires sets the status to Idle whatever the state is. (The witness  *)
(* is the race: a timer firing while recognition is active and a request   *)
(* is in flight.)                                                          *)
C15_TimersNeverCancelled ==
    /\ [][Len(timers') < Len(timers) => ev'.name = "timeout"]_vars
    /\ [][ev'.name \in {"click", "onstart", "onresult", "onend"}
            => timers' = timers]_vars
    /\ [][ev'.name = "timeout"
            => /\ status' = "Idle"
               /\ Len(timers') = Len(timers) - 1
               /\ UNCHANGED <<recognitionActive, inflight, engine>>]_vars

(* a timer has fired and forced Idle while the recognition session started *)
(* after it is active and its request is in flight                         *)
C15_Witness ==
    /\ ev.name = "timeout"
    /\ status = "Idle"
    /\ recognitionActive
    /\ inflight # <<>>

(* C16: with two or more requests in flight, a response that does not      *)
(* throw is applied whichever request it answers: currentSpeaker and mode  *)
(* take its non-empty values, the status becomes Idle and the other        *)
(* requests stay in flight; and a recognition result with text adds its    *)
(* own request to those already in flight.                                 *)
C16_ResponsesAppliedAsTheyArrive ==
    /\ [][(ev' = Event("response", Tag("ok")) /\ Len(inflight) >= 2) =>
           \A resp \in OkResponses :
             \/ /\ currentSpeaker' = (IF Filled(resp.data.currentSpeaker)
                                      THEN resp.data.currentSpeaker.s
                                      ELSE currentSpeaker)
                /\ mode' = (IF Filled(resp.data.mode) THEN resp.data.mode.s ELSE mode)
                /\ status' = "Idle"
                /\ inflight' # <<>>
                /\ \E k \in 1..Len(inflight) : inflight' = RemoveAt(inflight, k)
             \/ ~\E i \in 1..MaxInflight : response(i, resp)]_vars
    /\ [][(ev'.name = "onresult" /\ inflight # <<>> /\ status' = "Thinking")
            => /\ Len(inflight') = Len(inflight) + 1
               /\ SubSeq(inflight', 1, Len(inflight)) = inflight]_vars

(* a response has set Guest and FOCUS and Idle while the request sent      *)
(* with Chaitu and CHILL is still in flight, its fetch settled and its     *)
(* body awaited                                                            *)
C16_Witness ==
    /\ ev = Event("response", Tag("ok"))
    /\ status = "Idle"
    /\ currentSpeaker = "Guest"
    /\ mode = "FOCUS"
    /\ Len(inflight) = 1
    /\ inflight[1].currentSpeaker = "Chaitu"
    /\ inflight[1].mode = "CHILL"
    /\ stage[1] = "jsonOk"

(* C17, as claimed: a click handled while recognitionActive is true takes  *)
(* the stop branch, starts no recognition, issues no request and leaves    *)
(* the status Idle, and that stop is taken only when the status is Idle.   *)
C17_StopOnlyFromIdle ==
    [][(ev'.name = "click" /\ recognitionActive)
         => /\ ev'.input = Tag("stop")
            /\ engine' = engine
            /\ inflight' = inflight
            /\ status' = "Idle"
            /\ status = "Idle"]_vars

(* C17, amended: a click handled while recognitionActive is true takes the *)
(* stop branch, starts no recognition, issues no request and leaves the    *)
(* status Idle, whatever the status was before.                            *)
C17_StopClick ==
    [][(ev'.name = "click" /\ recognitionActive)
         => /\ ev'.input = Tag("stop")
            /\ engine' = engine
            /\ inflight' = inflight
            /\ recognitionActive' = recognitionActive
            /\ status' = "Idle"]_vars

(* a stop click has been handled while the recognizer was listening and a  *)
(* request was pending                                                     *)
C17_Witness ==
    /\ ev = Event("click", Tag("stop"))
    /\ status = "Idle"
    /\ recognitionActive
    /\ engine = "active"
    /\ inflight # <<>>

(* C18: whenever the status is Listening, recognitionActive is true.       *)
C18_ListeningImpliesActive == status = "Listening" => recognitionActive

(* the recognizer has started: Listening with recognitionActive; and       *)
(* recognitionActive may hold in other statuses                            *)
C18_Witness ==
    /\ ev.name = "onstart"
    /\ status = "Listening"
    /\ recognitionActive

(* C19: whenever the status is Thinking a request is in flight; the status *)
(* becomes Thinking only in a recognition result that sends a request, and *)
(* every response leaves the status Idle or Error.                         *)
C19_ThinkingImpliesInflight ==
    /\ [](status = "Thinking" => inflight # <<>>)
    /\ [][(status' = "Thinking" /\ status # "Thinking")
            => ev'.name = "onresult" /\ Len(inflight') = Len(inflight) + 1]_vars
    /\ [][ev'.name = "response" => status' \in {"Idle", "Error"}]_vars

(* a second request has been sent while the first is in flight             *)
C19_Witness ==
    /\ status = "Thinking"
    /\ Len(inflight) = 2
    /\ ev.name = "onresult"

(* C20: currentSpeaker and mode change only in a response that does not    *)
(* throw (lines 95-96); every other handler, the catch block included,     *)
(* leaves them; and a request that is sent carries the currentSpeaker and  *)
(* mode held when sendToLyra was called.                                   *)
C20_SpeakerModeFrame ==
    /\ [][(currentSpeaker' # currentSpeaker \/ mode' # mode)
            => /\ ev'.name = "response"
               /\ ev'.input \in {Tag("ok"), Tag("okWithError")}]_vars
    /\ [][ev'.name \in {"onstart", "onresult", "onerror", "onend", "click", "timeout"}
            => UNCHANGED <<currentSpeaker, mode>>]_vars
    /\ [][(ev'.name = "response"
             /\ ev'.input \in {Tag("rejected"), Tag("unparsable"), Tag("nullBody"),
                               Tag("httpError")})
            => UNCHANGED <<currentSpeaker, mode>>]_vars
    /\ [][Len(inflight') > Len(inflight)
            => /\ inflight'[Len(inflight')].currentSpeaker = currentSpeaker
               /\ inflight'[Len(inflight')].mode = mode]_vars

(* after a response changed them, a request went out with Guest and FOCUS  *)
C20_Witness ==
    /\ ev.name = "onresult"
    /\ currentSpeaker = "Guest"
    /\ mode = "FOCUS"
    /\ inflight # <<>>
    /\ inflight[Len(inflight)].currentSpeaker = "Guest"
    /\ inflight[Len(inflight)].mode = "FOCUS"

====
